---- MODULE Spec2Model ----
(***************************************************************************)
(* Model of pyFileSync: the one-way synchronisation of a local directory   *)
(* onto a Yandex.Disk WebDAV collection.                                   *)
(*                                                                         *)
(*   main.py   infinite_sync                      the orchestration loop   *)
(*   api.py    YadiskAPI (_request, _get_info, _make_info_dict,            *)
(*             load, reload, delete)              the remote client        *)
(*   utils.py  get_info, compare_cloud_local      local scan and the diff  *)
(*                                                                         *)
(* The remote server and the local directory are the environment.  The     *)
(* server answers every request with a status of its choice; it performs   *)
(* a DELETE exactly when it answers 204 and a PUT exactly when it answers  *)
(* 201.  The user may change the local directory, or make its path         *)
(* something else than a directory, while the agent sleeps.                *)
(***************************************************************************)
EXTENDS Integers, Sequences, FiniteSets, TLC

(* ---------------------------- bounds ----------------------------------- *)
NumFiles == 2
(* the most prop elements in a list response given to the parser on its own *)
MaxEntries == 4

AllNames == <<"a.txt", "b.txt", "c.txt", "d.txt">>
Names == {AllNames[i] : i \in 1..NumFiles}
(* The code compares sizes only with != and timestamps only with <        *)
(* (utils.py:160-161): two sizes give every outcome of the first, two     *)
(* instants every outcome of the second.                                  *)
Sizes == {1, 2}
Times == {0, 1}

(* metadata of one file: utils.py:121-124, api.py:353 *)
Meta == [last_modified : Times, size : Sizes]
(* a store / a snapshot: a mapping from the names present to their metadata *)
Stores == UNION {[S -> Meta] : S \in SUBSET Names}

(* An entry of the local directory as os.path.isdir and os.stat show it;    *)
(* st_mtime counts half seconds, so that it has a sub-second part.          *)
HalfSeconds == {2 * t : t \in Times} \cup {2 * t + 1 : t \in Times}
FileEntry(mtime, size) == [is_dir |-> FALSE, st_mtime |-> mtime, st_size |-> size]
DirEntry(mtime, size, children) ==
  [is_dir |-> TRUE, st_mtime |-> mtime, st_size |-> size, children |-> children]
(* the files of the synchronised directory, modified on whole seconds *)
LocalFiles == {FileEntry(2 * t, sz) : t \in Times, sz \in Sizes}
LocalStores == UNION {[S -> LocalFiles] : S \in SUBSET Names}
(* the configured local_path does not resolve to a directory *)
NotADir == [not_a_directory |-> TRUE]

(* Python's None and a returned dict, as get_info() may return either *)
None == [none |-> TRUE]
Some(d) == [none |-> FALSE, dict |-> d]

Remove(store, f) == [n \in (DOMAIN store) \ {f} |-> store[n]]
Put(store, f, m) == [n \in (DOMAIN store) \cup {f} |-> IF n = f THEN m ELSE store[n]]

VARIABLES
  cloud,       \* the remote collection: name -> metadata
  local,       \* the local directory: name -> metadata
  pc,          \* position of the process in infinite_sync
  exit_code,   \* 0 while running, 1 after sys.exit(1) or an uncaught exception
  cloud_dict,  \* main.py:76
  local_dict,  \* main.py:78
  todo_dict,   \* main.py:80
  rem,         \* names the running for-loop has not visited yet
  reqLog,      \* the requests of the current cycle, in the order issued
  logged,      \* what load, delete, reload and _request logged about them
  fn_in,       \* the arguments of a function called on its own
  fn_out       \* what that call returned

vars == <<cloud, local, pc, exit_code, cloud_dict, local_dict, todo_dict,
          rem, reqLog, logged, fn_in, fn_out>>

fn_vars == <<fn_in, fn_out>>

(* ------------------------- the remote server --------------------------- *)
(* statuses the server may answer to each method *)
ListStatuses == {207, 401, 404, 500}
PutStatuses == {201, 401, 404, 500}
DeleteStatuses == {204, 401, 404, 500}

(* A response body: not XML at all (for instance empty), or a multi-status *)
(* document with a sequence of response/propstat/prop elements.            *)
NoXml == [xml |-> FALSE]
Xml(props) == [xml |-> TRUE, props |-> props]
(* a prop element without a getcontentlength tag (a collection) *)
NoLength == "<none>"
(* the text of a getlastmodified tag, "%a, %d %b %Y %H:%M:%S GMT" *)
WireTime(t) ==
  IF t = 0 THEN "Thu, 01 Jan 1970 00:00:00 GMT" ELSE "Thu, 01 Jan 1970 00:00:01 GMT"
(* the text of a getcontentlength tag *)
WireSize(n) == ToString(n)

RECURSIVE SetToSeq(_)
SetToSeq(S) ==
  IF S = {} THEN <<>>
  ELSE LET n == CHOOSE m \in S : TRUE IN <<n>> \o SetToSeq(S \ {n})

(* the listing of the collection: its own entry first, then one per file *)
ListingBody(store) ==
  LET order == SetToSeq(DOMAIN store)
  IN Xml(<<[displayname |-> "", getcontentlength |-> NoLength,
             getlastmodified |-> WireTime(0)]>>
         \o [i \in 1..Len(order) |->
               [displayname |-> order[i],
                getcontentlength |-> WireSize(store[order[i]].size),
                getlastmodified |-> WireTime(store[order[i]].last_modified)]])

(* bodies the server may send with a status *)
Bodies(status, store) ==
  IF status = 207 THEN {ListingBody(store), NoXml}
  ELSE {NoXml, Xml(<<>>)}

(* ------------------------------ api.py --------------------------------- *)
(* mutant of request_exits: a 401 is logged and the response returned *)
request_exits_not_401(status_code) == status_code = 404

(* Response.raise_for_status raises HTTPError for 4xx and 5xx *)
raise_for_status(status_code) == status_code >= 400 /\ status_code < 600

(* _request: TRUE when the call ends in sys.exit(1), FALSE when it returns *)
(* the response                                                            *)
request_exits(status_code) ==
  raise_for_status(status_code) /\ (status_code = 401 \/ status_code = 404)

(* int(text), api.py:334 *)
int(text) == CHOOSE n \in Sizes : ToString(n) = text

(* datetime.strptime(text, "%a, %d %b %Y %H:%M:%S GMT"), api.py:349-351 *)
strptime(text) == CHOOSE t \in Times : WireTime(t) = text

(* _make_info_dict, api.py:329-353: the loop over the prop elements *)
RECURSIVE parse_props(_, _)
parse_props(props, result) ==
  IF props = <<>> THEN result
  ELSE LET tag == Head(props)
       IN IF tag.getcontentlength = NoLength
          THEN parse_props(Tail(props), result)
          ELSE parse_props(Tail(props),
                 Put(result, tag.displayname,
                     [last_modified |-> strptime(tag.getlastmodified),
                      size |-> int(tag.getcontentlength)]))

(* the slice [1:] of api.py:329 *)
slice_from_1(props) == IF props = <<>> THEN <<>> ELSE Tail(props)

(* mutant of make_info_dict: the slice [1:] left out *)
make_info_dict_no_skip(text) ==
  IF ~text.xml THEN None ELSE Some(parse_props(text.props, <<>>))

(* _make_info_dict, api.py:321-357 *)
make_info_dict(text) ==
  IF ~text.xml THEN None ELSE Some(parse_props(slice_from_1(text.props), <<>>))

(* ----------------------------- utils.py -------------------------------- *)
(* mutant of get_info_raises: a path that is no directory is listed as empty *)
get_info_raises_never(path) == FALSE

(* get_info, utils.py:101-102: NotADirectoryError *)
get_info_raises(path) == path = NotADir

(* os.listdir(path) *)
listdir(path) == IF path = NotADir THEN {} ELSE DOMAIN path

(* datetime.fromtimestamp(st_mtime, timezone.utc).replace(microsecond=0) *)
replace_microsecond(st_mtime) == st_mtime \div 2

(* mutant of get_info: the continue of utils.py:113 left out *)
get_info_keeps_dirs(path) ==
  [file \in listdir(path) |->
     [last_modified |-> replace_microsecond(path[file].st_mtime),
      size |-> path[file].st_size]]

(* get_info, utils.py:103-126: the loop over the entries of the directory *)
get_info(path) ==
  [file \in {f \in listdir(path) : ~path[f].is_dir} |->
     [last_modified |-> replace_microsecond(path[file].st_mtime),
      size |-> path[file].st_size]]

(* mutants of not_in_cloud: & written for -, and the subtraction forgotten *)
not_in_cloud_intersect(c, l) == (DOMAIN l) \cap (DOMAIN c)
not_in_cloud_all_local(c, l) == DOMAIN l

not_in_cloud(c, l) == (DOMAIN l) \ (DOMAIN c)

(* mutant of not_in_local: & written for - *)
not_in_local_intersect(c, l) == (DOMAIN c) \cap (DOMAIN l)

not_in_local(c, l) == (DOMAIN c) \ (DOMAIN l)

(* mutant of needs_reload: <= written for < *)
needs_reload_le(c, l, name) ==
  c[name].size # l[name].size \/ c[name].last_modified <= l[name].last_modified

(* mutant of needs_reload: and written for or *)
needs_reload_and(c, l, name) ==
  c[name].size # l[name].size /\ c[name].last_modified < l[name].last_modified

needs_reload(c, l, name) ==
  c[name].size # l[name].size \/ c[name].last_modified < l[name].last_modified

same_names(c, l) == (DOMAIN c) \cap (DOMAIN l)

compare_cloud_local(c, l) ==
  [load |-> not_in_cloud(c, l),
   reload |-> {name \in same_names(c, l) : needs_reload(c, l, name)},
   delete |-> not_in_local(c, l)]

(* ------------------------------ main.py -------------------------------- *)
EmptyPlan == [load |-> {}, reload |-> {}, delete |-> {}]
Req(op, method, name, status) ==
  [op |-> op, method |-> method, name |-> name, status |-> status]
Log(op, name, level) == [op |-> op, name |-> name, level |-> level]
NoCall == [fn |-> "none"]

(* mutant of load_level: every status from 201 on taken for a success *)
load_level_from_201(status_code) == IF status_code >= 201 THEN "info" ELSE "error"

(* load, api.py:70-75 *)
load_level(status_code) == IF status_code = 201 THEN "info" ELSE "error"

(* delete, api.py:119-124 *)
delete_level(status_code) == IF status_code = 204 THEN "info" ELSE "error"

(* mutant of reload_stops: the return of api.py:96 left out *)
reload_stops_never(status_code) == FALSE

(* reload, api.py:92-96: the upload is not tried *)
reload_stops(status_code) == status_code # 204

(* reload, api.py:99-104 *)
reload_level(status_code) == IF status_code = 201 THEN "info" ELSE "error"

(* mutant of loop_files: the delete loop written over todo_dict["load"] *)
loop_files_delete_loads(todo, loop) ==
  IF loop = "delete" THEN todo["load"] ELSE todo[loop]

(* the names a for-loop runs over, main.py:83, 85, 87 *)
loop_files(todo, loop) == todo[loop]

Init ==
  /\ cloud \in Stores
  /\ local \in LocalStores \cup {NotADir}
  /\ pc = "get_info"
  /\ exit_code = 0
  /\ cloud_dict = None
  /\ local_dict = <<>>
  /\ todo_dict = EmptyPlan
  /\ rem = {}
  /\ reqLog = <<>>
  /\ logged = <<>>
  /\ fn_in = NoCall
  /\ fn_out = NoCall

(* sys.exit(1) inside _request *)
Exit ==
  /\ pc' = "exited"
  /\ exit_code' = 1

(* main.py:76  cloud_dict = yapi.get_info() *)
GetInfoCloud ==
  /\ pc = "get_info"
  /\ \E status \in ListStatuses : \E text \in Bodies(status, cloud) :
       /\ reqLog' = Append(reqLog, Req("list", "PROPFIND", "", status))
       /\ IF request_exits(status)
          THEN /\ Exit
               /\ logged' = Append(logged, Log("list", "", "critical"))
               /\ UNCHANGED cloud_dict
          ELSE /\ cloud_dict' = make_info_dict(text)
               /\ pc' = "scan"
               /\ UNCHANGED <<exit_code, logged>>
  /\ UNCHANGED <<cloud, local, local_dict, todo_dict, rem, fn_vars>>

(* main.py:78  local_dict = utils.get_info(local_path); nothing catches the *)
(* NotADirectoryError                                                       *)
GetInfoLocal ==
  /\ pc = "scan"
  /\ IF get_info_raises(local)
     THEN /\ pc' = "scan_failed"
          /\ exit_code' = 1
          /\ UNCHANGED local_dict
     ELSE /\ local_dict' = get_info(local)
          /\ pc' = "compare"
          /\ UNCHANGED exit_code
  /\ UNCHANGED <<cloud, local, cloud_dict, todo_dict, rem, reqLog, logged, fn_vars>>

(* main.py:80  todo_dict = utils.compare_cloud_local(cloud_dict, local_dict); *)
(* cloud.keys() on None raises AttributeError, which nothing catches          *)
Compare ==
  /\ pc = "compare"
  /\ IF cloud_dict.none
     THEN /\ pc' = "crashed"
          /\ exit_code' = 1
          /\ UNCHANGED <<todo_dict, rem>>
     ELSE /\ todo_dict' = compare_cloud_local(cloud_dict.dict, local_dict)
          /\ rem' = loop_files(todo_dict', "delete")
          /\ pc' = "delete"
          /\ UNCHANGED exit_code
  /\ UNCHANGED <<cloud, local, cloud_dict, local_dict, reqLog, logged, fn_vars>>

(* mutant of next_loop: the reload loop written before the load loop *)
next_loop_reload_first(loop) ==
  IF loop = "delete" THEN "reload"
  ELSE IF loop = "reload" THEN "load"
  ELSE "sleep"

(* mutant of next_loop: the load loop entered only after the reload loop is *)
(* skipped                                                                  *)
next_loop_skip_load(loop) ==
  IF loop = "delete" THEN "reload"
  ELSE "sleep"

(* the order of the three for-loops, main.py:83-88 *)
next_loop(loop) ==
  IF loop = "delete" THEN "load"
  ELSE IF loop = "load" THEN "reload"
  ELSE "sleep"

(* a for-loop is exhausted: enter the next one, or line 90-91 *)
LoopDone ==
  /\ pc \in {"delete", "load", "reload"}
  /\ rem = {}
  /\ pc' = next_loop(pc)
  /\ rem' = IF pc' = "sleep" THEN {} ELSE loop_files(todo_dict, pc')
  /\ UNCHANGED <<cloud, local, exit_code, cloud_dict, local_dict, todo_dict, reqLog,
                 logged, fn_vars>>

(* main.py:84  yapi.delete(file) *)
DeleteFile ==
  /\ pc = "delete"
  /\ \E file \in rem : \E status \in DeleteStatuses :
       /\ reqLog' = Append(reqLog, Req("delete", "DELETE", file, status))
       /\ cloud' = IF status = 204 THEN Remove(cloud, file) ELSE cloud
       /\ IF request_exits(status)
          THEN /\ Exit
               /\ logged' = Append(logged, Log("delete", file, "critical"))
               /\ UNCHANGED rem
          ELSE /\ logged' = Append(logged, Log("delete", file, delete_level(status)))
               /\ rem' = rem \ {file}
               /\ UNCHANGED <<pc, exit_code>>
  /\ UNCHANGED <<local, cloud_dict, local_dict, todo_dict, fn_vars>>

(* main.py:86  yapi.load(local_path, file) *)
LoadFile ==
  /\ pc = "load"
  /\ \E file \in rem : \E status \in PutStatuses : \E now \in Times :
       /\ reqLog' = Append(reqLog, Req("load", "PUT", file, status))
       /\ cloud' = IF status = 201
                   THEN Put(cloud, file, [last_modified |-> now, size |-> local[file].st_size])
                   ELSE cloud
       /\ IF request_exits(status)
          THEN /\ Exit
               /\ logged' = Append(logged, Log("load", file, "critical"))
               /\ UNCHANGED rem
          ELSE /\ logged' = Append(logged, Log("load", file, load_level(status)))
               /\ rem' = rem \ {file}
               /\ UNCHANGED <<pc, exit_code>>
  /\ UNCHANGED <<local, cloud_dict, local_dict, todo_dict, fn_vars>>

(* main.py:88  yapi.reload(local_path, file): api.py:91-104 *)
ReloadFile ==
  /\ pc = "reload"
  /\ \E file \in rem : \E first \in DeleteStatuses :
       LET del == Req("reload", "DELETE", file, first)
           afterDelete == IF first = 204 THEN Remove(cloud, file) ELSE cloud
       IN IF request_exits(first)
          THEN /\ reqLog' = Append(reqLog, del)
               /\ logged' = Append(logged, Log("reload", file, "critical"))
               /\ cloud' = afterDelete
               /\ Exit
               /\ UNCHANGED rem
          ELSE IF reload_stops(first)
          THEN /\ reqLog' = Append(reqLog, del)
               /\ logged' = Append(logged, Log("reload", file, "error"))
               /\ cloud' = afterDelete
               /\ rem' = rem \ {file}
               /\ UNCHANGED <<pc, exit_code>>
          ELSE \E second \in PutStatuses : \E now \in Times :
               /\ reqLog' = reqLog \o <<del, Req("reload", "PUT", file, second)>>
               /\ cloud' = IF second = 201
                           THEN Put(afterDelete, file,
                                    [last_modified |-> now, size |-> local[file].st_size])
                           ELSE afterDelete
               /\ IF request_exits(second)
                  THEN /\ Exit
                       /\ logged' = Append(logged, Log("reload", file, "critical"))
                       /\ UNCHANGED rem
                  ELSE /\ logged' = Append(logged, Log("reload", file, reload_level(second)))
                       /\ rem' = rem \ {file}
                       /\ UNCHANGED <<pc, exit_code>>
  /\ UNCHANGED <<local, cloud_dict, local_dict, todo_dict, fn_vars>>

(* main.py:91  time.sleep(sync_period), then the next iteration of while True. *)
(* cloud_dict, local_dict and todo_dict are rebound at lines 76-80 before they  *)
(* are read again, so their old values are dropped here.                        *)
Sleep ==
  /\ pc = "sleep"
  /\ pc' = "get_info"
  /\ cloud_dict' = None
  /\ local_dict' = <<>>
  /\ todo_dict' = EmptyPlan
  /\ reqLog' = <<>>
  /\ logged' = <<>>
  /\ UNCHANGED <<cloud, local, exit_code, rem, fn_vars>>

(* The user changes the local directory between two cycles.  The agent reads *)
(* the directory only at main.py:78, so a change made during the sleep is    *)
(* seen at the start of the next cycle.                                      *)
LocalChange ==
  /\ pc = "get_info"
  /\ local' \in (LocalStores \cup {NotADir}) \ {local}
  /\ UNCHANGED <<cloud, pc, exit_code, cloud_dict, local_dict, todo_dict, rem, reqLog,
                 logged, fn_vars>>

Next ==
  \/ GetInfoCloud
  \/ GetInfoLocal
  \/ Compare
  \/ LoopDone
  \/ DeleteFile
  \/ LoadFile
  \/ ReloadFile
  \/ LocalChange
  \/ Sleep

Spec == Init /\ [][Next]_vars

TypeOK ==
  /\ cloud \in Stores
  /\ local \in LocalStores \cup {NotADir}
  /\ pc \in {"get_info", "scan", "compare", "delete", "load", "reload", "sleep",
             "exited", "crashed", "scan_failed"}
  /\ exit_code \in {0, 1}
  /\ rem \subseteq Names

(* ----------------------------- properties ------------------------------ *)
(* todo_dict is the plan compare_cloud_local returned in this cycle for    *)
(* cloud_dict and local_dict                                               *)
PlanComputed ==
  /\ pc \in {"delete", "load", "reload", "sleep", "exited"}
  /\ ~cloud_dict.none

InBoth(n) == n \in DOMAIN cloud_dict.dict /\ n \in DOMAIN local_dict
Planned(n) == n \in todo_dict.load \cup todo_dict.reload \cup todo_dict.delete

(* C1: reload is exactly the names present in both snapshots whose sizes    *)
(* differ or whose remote timestamp is strictly older than the local one; a *)
(* name with equal sizes and a remote timestamp not older is in no set.     *)
C1_ReloadExact ==
  PlanComputed =>
    \A n \in Names :
      /\ n \in todo_dict.reload <=>
           /\ InBoth(n)
           /\ \/ cloud_dict.dict[n].size # local_dict[n].size
              \/ cloud_dict.dict[n].last_modified < local_dict[n].last_modified
      /\ ( /\ InBoth(n)
           /\ cloud_dict.dict[n].size = local_dict[n].size
           /\ cloud_dict.dict[n].last_modified >= local_dict[n].last_modified )
         => ~Planned(n)

(* a plan with a name reloaded for its size alone (remote timestamp newer) *)
(* and another name, in sync, left out of every set                        *)
C1_Witness ==
  /\ PlanComputed
  /\ \E n \in Names : \E m \in Names \ {n} :
       /\ InBoth(n) /\ InBoth(m)
       /\ cloud_dict.dict[n].size # local_dict[n].size
       /\ cloud_dict.dict[n].last_modified > local_dict[n].last_modified
       /\ n \in todo_dict.reload
       /\ cloud_dict.dict[m].size = local_dict[m].size
       /\ cloud_dict.dict[m].last_modified >= local_dict[m].last_modified
       /\ ~Planned(m)

(* C2: load is exactly the names of the local snapshot that the remote      *)
(* snapshot lacks, and such a name is in neither reload nor delete.         *)
C2_LoadExact ==
  PlanComputed =>
    \A n \in Names :
      /\ n \in todo_dict.load <=>
           (n \in DOMAIN local_dict /\ n \notin DOMAIN cloud_dict.dict)
      /\ (n \in DOMAIN local_dict /\ n \notin DOMAIN cloud_dict.dict)
         => (n \notin todo_dict.reload /\ n \notin todo_dict.delete)

(* a plan that loads a local-only name while another name is on both sides *)
C2_Witness ==
  /\ PlanComputed
  /\ \E n \in Names : \E m \in Names \ {n} :
       /\ n \in DOMAIN local_dict /\ n \notin DOMAIN cloud_dict.dict
       /\ n \in todo_dict.load
       /\ InBoth(m)

(* C3: delete is exactly the names of the remote snapshot that the local    *)
(* snapshot lacks, and such a name is in neither load nor reload.           *)
C3_DeleteExact ==
  PlanComputed =>
    \A n \in Names :
      /\ n \in todo_dict.delete <=>
           (n \in DOMAIN cloud_dict.dict /\ n \notin DOMAIN local_dict)
      /\ (n \in DOMAIN cloud_dict.dict /\ n \notin DOMAIN local_dict)
         => (n \notin todo_dict.load /\ n \notin todo_dict.reload)

(* an empty local snapshot puts every remote name in delete *)
C3_Witness ==
  /\ PlanComputed
  /\ local_dict = <<>>
  /\ DOMAIN cloud_dict.dict = Names
  /\ todo_dict.delete = Names

(* C4: the three sets of a plan are pairwise disjoint and hold only names   *)
(* of the two snapshots.                                                    *)
C4_PlanDisjoint ==
  PlanComputed =>
    /\ todo_dict.load \cap todo_dict.reload = {}
    /\ todo_dict.load \cap todo_dict.delete = {}
    /\ todo_dict.reload \cap todo_dict.delete = {}
    /\ (todo_dict.load \cup todo_dict.delete \cup todo_dict.reload)
         \subseteq ((DOMAIN cloud_dict.dict) \cup (DOMAIN local_dict))

(* a plan with two non-empty sets *)
C4_Witness ==
  /\ PlanComputed
  /\ todo_dict.load # {}
  /\ todo_dict.reload # {}

(* action op on name n was issued before position j of the log *)
IssuedBefore(op, n, j) ==
  \E i \in 1..(j - 1) : reqLog[i].op = op /\ reqLog[i].name = n

(* C5: in a cycle no load is issued before every delete of the plan has    *)
(* been issued, and no reload before every delete and every load.          *)
C5_FixedOrder ==
  \A j \in 1..Len(reqLog) :
    /\ reqLog[j].op = "load" =>
         \A n \in todo_dict.delete : IssuedBefore("delete", n, j)
    /\ reqLog[j].op = "reload" =>
         /\ \A n \in todo_dict.delete : IssuedBefore("delete", n, j)
         /\ \A n \in todo_dict.load : IssuedBefore("load", n, j)

(* a cycle that has issued a delete and then a load *)
C5_Witness ==
  /\ todo_dict.delete # {}
  /\ \E j \in 1..Len(reqLog) : reqLog[j].op = "load"

Has401 == \E i \in 1..Len(reqLog) : reqLog[i].status = 401

(* C7: a 401 answer to any request ends the process with status 1: it is the *)
(* last request issued, and from then on no request is issued and no cycle   *)
(* starts.                                                                   *)
C7_UnauthorizedIsFatal ==
  /\ [](Has401 => /\ reqLog[Len(reqLog)].status = 401
                  /\ pc = "exited"
                  /\ exit_code = 1)
  /\ [][Has401 => UNCHANGED <<reqLog, pc, exit_code>>]_vars

(* the upload of a reload answered 401 after its delete succeeded *)
C7_Witness ==
  /\ Len(reqLog) >= 2
  /\ reqLog[Len(reqLog)] = Req("reload", "PUT", reqLog[Len(reqLog)].name, 401)
  /\ reqLog[Len(reqLog) - 1].status = 204
  /\ pc = "exited"

(* the plan a cycle computes from the present stores when the listing is *)
(* answered 207 with the collection's own listing                        *)
FreshPlan ==
  compare_cloud_local(make_info_dict(ListingBody(cloud)).dict, get_info(local))

Success(method) == IF method = "PUT" THEN 201 ELSE 204

(* C6: when the DELETE of a reload is answered 204 and its PUT fails (a 401 *)
(* aside, which ends the process), the file is absent remotely, the process *)
(* goes on to the next cycle, and a plan computed then puts the name in     *)
(* load.                                                                    *)
C6_FailedReloadBecomesLoad ==
  \A i \in 1..(Len(reqLog) - 1) :
    ( /\ reqLog[i] = Req("reload", "DELETE", reqLog[i].name, 204)
      /\ reqLog[i + 1].op = "reload"
      /\ reqLog[i + 1].method = "PUT"
      /\ reqLog[i + 1].name = reqLog[i].name
      /\ reqLog[i + 1].status \notin {201, 401} )
    => /\ reqLog[i].name \notin DOMAIN cloud
       /\ (i + 1 = Len(reqLog) => exit_code = 0)
       /\ (pc = "sleep" => reqLog[i].name \in FreshPlan.load)

(* C8: the process ends only when a request is answered 401; after any     *)
(* other failure it keeps running.                                         *)
C8_OnlyUnauthorizedEnds ==
  exit_code = 1 => Has401

(* C9: when the body of the list response cannot be parsed, get_info gives *)
(* no snapshot and the process does not end with an exception.             *)
C9_UnparsableListSurvives ==
  ( /\ Len(reqLog) = 1
    /\ reqLog[1].op = "list"
    /\ ~request_exits(reqLog[1].status)
    /\ cloud_dict.none )
  => pc # "crashed"

(* the action a failed request is retried as *)
RetryAs(req) ==
  IF req.op = "reload" /\ req.method = "PUT" THEN "load" ELSE req.op

(* C10: a delete, load or reload that fails with a status other than 401 is *)
(* abandoned for the cycle, the process keeps running, and the plan         *)
(* computed next holds an action for the same name.                         *)
C10_FailedActionRetried ==
  \A i \in 1..Len(reqLog) :
    ( /\ reqLog[i].op # "list"
      /\ reqLog[i].status \notin {Success(reqLog[i].method), 401} )
    => /\ (i = Len(reqLog) => exit_code = 0)
       /\ (pc = "sleep" => reqLog[i].name \in FreshPlan[RetryAs(reqLog[i])])

(* C11: a list request answered 404, or with another status that is neither *)
(* 207 nor 401, is reported to the caller: the process goes on, no remote   *)
(* snapshot is built from the body of the answer and no action is planned   *)
(* in that cycle.                                                           *)
C11_FailedListGivesNoSnapshot ==
  ( /\ Len(reqLog) >= 1
    /\ reqLog[1].op = "list"
    /\ reqLog[1].status \notin {207, 401} )
  => /\ pc # "exited"
     /\ cloud_dict.none
     /\ todo_dict = EmptyPlan
     /\ Len(reqLog) = 1

(* C12: a DELETE answered 404 is an outcome of that one call: the process *)
(* does not end on it.                                                    *)
C12_Delete404IsPerCall ==
  ( /\ Len(reqLog) >= 1
    /\ reqLog[Len(reqLog)].method = "DELETE"
    /\ reqLog[Len(reqLog)].status = 404 )
  => /\ exit_code = 0
     /\ logged[Len(logged)].level # "critical"

(* C13: for equal remote and local snapshots the plan is empty and the *)
(* cycle issues no upload and no delete request.                       *)
C13_EqualSnapshotsEmptyPlan ==
  (PlanComputed /\ cloud_dict.dict = local_dict)
  => /\ todo_dict.load = {}
     /\ todo_dict.reload = {}
     /\ todo_dict.delete = {}
     /\ \A i \in 1..Len(reqLog) : reqLog[i].method = "PROPFIND"

(* a cycle over equal snapshots of all files has run to its sleep *)
C13_Witness ==
  /\ pc = "sleep"
  /\ ~cloud_dict.none
  /\ cloud_dict.dict = local_dict
  /\ DOMAIN local_dict = Names
  /\ Len(reqLog) = 1

(* the i-th request of the cycle ended the process *)
Fatal(i) == i = Len(reqLog) /\ pc = "exited"

(* C14: an upload answered 201 is logged as a success and one answered with *)
(* any other returned status as a failure; a load action issues exactly one *)
(* PUT for its filename in a cycle, whatever the answer.                    *)
C14_LoadOnePutPerName ==
  /\ \A i \in 1..Len(reqLog) :
       reqLog[i].op = "load" =>
         /\ reqLog[i].method = "PUT"
         /\ reqLog[i].name \in todo_dict.load
         /\ \A j \in 1..Len(reqLog) :
              (reqLog[j].op = "load" /\ reqLog[j].name = reqLog[i].name) => j = i
         /\ \E k \in 1..Len(logged) :
              /\ logged[k].op = "load"
              /\ logged[k].name = reqLog[i].name
              /\ logged[k].level = IF reqLog[i].status = 201 THEN "info"
                                   ELSE IF Fatal(i) THEN "critical"
                                   ELSE "error"
  /\ pc \in {"reload", "sleep"} =>
       \A file \in todo_dict.load :
         \E i \in 1..Len(reqLog) : reqLog[i].op = "load" /\ reqLog[i].name = file

(* a cycle has uploaded one file with success and one without, and went on *)
C14_Witness ==
  /\ pc = "sleep"
  /\ \E i, j \in 1..Len(reqLog) :
       /\ reqLog[i].op = "load" /\ reqLog[i].status = 201
       /\ reqLog[j].op = "load" /\ reqLog[j].status = 500
       /\ reqLog[i].name # reqLog[j].name

(* the steps of one cycle in their order, and the ways a cycle ends the process *)
StepOrder ==
  { <<"get_info", "scan">>, <<"scan", "compare">>, <<"compare", "delete">>,
    <<"delete", "load">>, <<"load", "reload">>, <<"reload", "sleep">>,
    <<"sleep", "get_info">>,
    <<"get_info", "exited">>, <<"scan", "scan_failed">>, <<"compare", "crashed">>,
    <<"delete", "exited">>, <<"load", "exited">>, <<"reload", "exited">> }

AllPlanned == todo_dict.delete \cup todo_dict.load \cup todo_dict.reload

(* C15: the steps of a cycle run in the order remote list, local scan, diff, *)
(* plan actions, sleep; the sleep is entered only when every plan action has *)
(* been carried out, and the list request of the next cycle is issued only   *)
(* after the sleep has elapsed: cycles never overlap.                        *)
C15_CyclesInOrder ==
  /\ [](pc = "sleep" =>
          /\ rem = {}
          /\ \A file \in AllPlanned :
               \E i \in 1..Len(reqLog) : reqLog[i].name = file /\ reqLog[i].op # "list")
  /\ [][ /\ pc' # pc => <<pc, pc'>> \in StepOrder
         /\ (Len(reqLog') > Len(reqLog) /\ reqLog'[Len(reqLog')].op = "list") =>
              /\ pc = "get_info"
              /\ reqLog = <<>>
              /\ todo_dict = EmptyPlan
         /\ (pc = "sleep" /\ pc' # pc) => (pc' = "get_info" /\ reqLog' = <<>>)
         /\ (pc \in {"delete", "load", "reload"} /\ Len(reqLog') > Len(reqLog)) =>
              reqLog'[Len(reqLog')].op = pc
       ]_vars

(* a cycle with a delete and an upload has reached its sleep *)
C15_Witness ==
  /\ pc = "sleep"
  /\ todo_dict.delete # {}
  /\ todo_dict.load # {}
  /\ Len(reqLog) = 3

(* C19: in a reload whose DELETE is answered with a status other than 204   *)
(* and does not end the process, no PUT follows: the reload is one request  *)
(* and the remote store is as it was.                                       *)
C19_FailedDeleteStopsReload ==
  [][ ( /\ pc = "reload"
        /\ pc' # "exited"
        /\ Len(reqLog') > Len(reqLog)
        /\ reqLog'[Len(reqLog) + 1].status # 204 )
      => /\ Len(reqLog') = Len(reqLog) + 1
         /\ reqLog'[Len(reqLog')].method = "DELETE"
         /\ cloud' = cloud
    ]_vars

(* a reload has ended on its DELETE answered 500, the file still remote *)
C19_Witness ==
  /\ pc = "reload"
  /\ Len(reqLog) >= 2
  /\ reqLog[Len(reqLog)] \in {Req("reload", "DELETE", f, 500) : f \in DOMAIN cloud}
  /\ logged[Len(logged)].level = "error"

(* C20: while the local path is not a directory the cycle gets no further   *)
(* than the scan: no plan is computed and no upload and no delete request   *)
(* is issued.                                                               *)
C20_NotADirectoryNoActions ==
  local = NotADir =>
    /\ pc \in {"get_info", "scan", "scan_failed", "exited"}
    /\ todo_dict = EmptyPlan
    /\ \A i \in 1..Len(reqLog) : reqLog[i].method = "PROPFIND"

(* the scan has failed in a cycle whose remote listing held files *)
C20_Witness ==
  /\ pc = "scan_failed"
  /\ local = NotADir
  /\ ~cloud_dict.none
  /\ DOMAIN cloud_dict.dict = Names
  /\ DOMAIN cloud = Names

(* --------------- get_info and _make_info_dict on their own -------------- *)
(* Directories as os.listdir, os.path.isdir and os.stat show them: files    *)
(* modified at any half second, and subdirectories, empty or holding a file. *)
ScanEntries ==
  {FileEntry(m, sz) : m \in HalfSeconds, sz \in Sizes}
    \cup {DirEntry(0, 1, children) :
            children \in {<<>>, [n \in {"inner.txt"} |-> FileEntry(0, 1)]}}
ScanInputs == UNION {[S -> ScanEntries] : S \in SUBSET Names} \cup {NotADir}

(* prop elements of a list response: a collection, or a file with its tags *)
PropEntries ==
  {[displayname |-> n, getcontentlength |-> NoLength, getlastmodified |-> WireTime(0)] :
     n \in Names}
    \cup {[displayname |-> n, getcontentlength |-> WireSize(sz),
           getlastmodified |-> WireTime(t)] : n \in Names, sz \in Sizes, t \in Times}
ParseInputs ==
  {NoXml} \cup {Xml(props) : props \in UNION {[1..k -> PropEntries] : k \in 0..MaxEntries}}

Call(fn, arg) == [fn |-> fn, arg |-> arg]
Raised(fn) == [fn |-> fn, raised |-> TRUE]
Returned(fn, result) == [fn |-> fn, raised |-> FALSE, result |-> result]

InitFn ==
  /\ cloud = <<>>
  /\ local = <<>>
  /\ pc = "call"
  /\ exit_code = 0
  /\ cloud_dict = None
  /\ local_dict = <<>>
  /\ todo_dict = EmptyPlan
  /\ rem = {}
  /\ reqLog = <<>>
  /\ logged = <<>>
  /\ fn_in \in {Call("get_info", path) : path \in ScanInputs}
                 \cup {Call("_make_info_dict", text) : text \in ParseInputs}
  /\ fn_out = NoCall

main_vars == <<cloud, local, pc, exit_code, cloud_dict, local_dict, todo_dict,
               rem, reqLog, logged>>

(* utils.get_info(path) *)
ScanCall ==
  /\ fn_in.fn = "get_info"
  /\ fn_out = NoCall
  /\ fn_out' = IF get_info_raises(fn_in.arg)
               THEN Raised("get_info")
               ELSE Returned("get_info", get_info(fn_in.arg))
  /\ UNCHANGED <<fn_in, main_vars>>

(* YadiskAPI._make_info_dict(response) *)
ParseCall ==
  /\ fn_in.fn = "_make_info_dict"
  /\ fn_out = NoCall
  /\ fn_out' = Returned("_make_info_dict", make_info_dict(fn_in.arg))
  /\ UNCHANGED <<fn_in, main_vars>>

NextFn ==
  \/ ScanCall
  \/ ParseCall

FnSpec == InitFn /\ [][NextFn]_vars

(* C16: the snapshot get_info returns for a directory has exactly the names *)
(* of the entries that are not directories as its keys: a subdirectory is   *)
(* not recorded and nothing inside it is.                                   *)
C16_ScanSkipsDirectories ==
  (fn_out.fn = "get_info" /\ ~fn_out.raised) =>
    /\ DOMAIN fn_out.result = {f \in DOMAIN fn_in.arg : ~fn_in.arg[f].is_dir}
    /\ \A f \in DOMAIN fn_out.result : fn_out.result[f].size = fn_in.arg[f].st_size

(* a directory with a file and a non-empty subdirectory has been scanned *)
C16_Witness ==
  /\ fn_out.fn = "get_info"
  /\ ~fn_out.raised
  /\ \E f, d \in DOMAIN fn_in.arg :
       /\ ~fn_in.arg[f].is_dir
       /\ fn_in.arg[d].is_dir
       /\ fn_in.arg[d].children # <<>>
       /\ f \in DOMAIN fn_out.result

(* the prop elements of a list response that the parser records *)
Recorded(props) == {i \in 2..Len(props) : props[i].getcontentlength # NoLength}

(* C17: of a well-formed list response the parser skips the first entry    *)
(* whatever it is, skips every later entry without a content length, and   *)
(* maps the display name of each other entry to its size and timestamp,    *)
(* the last entry of a name deciding.                                      *)
C17_ParseSkipsFirstAndFolders ==
  (fn_out.fn = "_make_info_dict" /\ fn_in.arg.xml) =>
    LET props == fn_in.arg.props
        result == fn_out.result
    IN /\ ~result.none
       /\ DOMAIN result.dict = {props[i].displayname : i \in Recorded(props)}
       /\ \A i \in Recorded(props) :
            (\A j \in Recorded(props) :
               props[j].displayname = props[i].displayname => j <= i)
            => /\ WireSize(result.dict[props[i].displayname].size)
                    = props[i].getcontentlength
               /\ WireTime(result.dict[props[i].displayname].last_modified)
                    = props[i].getlastmodified

(* a response has been parsed whose first entry is a file, followed by a *)
(* folder and by two entries of one name with different sizes            *)
C17_Witness ==
  /\ fn_out.fn = "_make_info_dict"
  /\ fn_in.arg.xml
  /\ Len(fn_in.arg.props) = 4
  /\ LET props == fn_in.arg.props
     IN /\ props[1].getcontentlength # NoLength
        /\ props[2].getcontentlength = NoLength
        /\ props[2].displayname = props[1].displayname
        /\ props[3].getcontentlength # NoLength
        /\ props[4].getcontentlength # NoLength
        /\ props[3].displayname = props[4].displayname
        /\ props[3].displayname # props[1].displayname
        /\ props[3].getcontentlength # props[4].getcontentlength
        /\ DOMAIN fn_out.result.dict = {props[4].displayname}

(* the requests of the cycle with a method and a name *)
Sent(method, name) ==
  {i \in 1..Len(reqLog) : reqLog[i].method = method /\ reqLog[i].name = name}

Range(seq) == {seq[i] : i \in 1..Len(seq)}

(* C21: in a cycle every DELETE goes to a name of the plan's delete or     *)
(* reload set and every PUT to a name of its load or reload set; no two    *)
(* requests of the cycle have the same method and name, so a name gets at  *)
(* most one DELETE and at most one PUT; a name in both snapshots and in no *)
(* plan set gets no request; and the local directory changes in no step of *)
(* the agent.                                                              *)
C21_RequestsFollowPlan ==
  /\ [](\A r \in Range(reqLog) :
          /\ r.method = "DELETE" => r.name \in todo_dict.delete \cup todo_dict.reload
          /\ r.method = "PUT" => r.name \in todo_dict.load \cup todo_dict.reload
          /\ PlanComputed => ~(InBoth(r.name) /\ ~Planned(r.name)))
  /\ [](Cardinality({<<reqLog[i].method, reqLog[i].name>> : i \in 1..Len(reqLog)})
          = Len(reqLog))
  /\ [][local' # local => UNCHANGED <<pc, rem, reqLog, logged, cloud>>]_vars

(* a cycle has deleted one name and left alone another that is in sync on *)
(* both sides                                                             *)
C21_Witness ==
  /\ pc = "sleep"
  /\ ~cloud_dict.none
  /\ \E n, m \in Names :
       /\ InBoth(n) /\ ~Planned(n)
       /\ m \in todo_dict.delete
       /\ Sent("DELETE", m) # {}
       /\ Sent("DELETE", n) = {} /\ Sent("PUT", n) = {}

(* ------------------- the cycle in a calm environment -------------------- *)
(* Every request of the cycle was answered with success, the 207 carried   *)
(* the listing, and the server stamped each uploaded file not earlier than *)
(* the file was modified locally.                                          *)
Calm ==
  /\ \A i \in 1..Len(reqLog) : reqLog[i].status \in {207, 201, 204}
  /\ Len(reqLog) >= 1 => ~cloud_dict.none
  /\ \A i \in 1..Len(reqLog) :
       reqLog[i].method = "PUT" =>
         /\ reqLog[i].name \in DOMAIN cloud
         /\ cloud[reqLog[i].name].last_modified
              >= replace_microsecond(local[reqLog[i].name].st_mtime)

(* the local path is a directory, and stays as it is *)
InitCalm ==
  /\ Init
  /\ local \in LocalStores

CalmList == GetInfoCloud /\ Calm'
CalmDelete == DeleteFile /\ Calm'
CalmLoad == LoadFile /\ Calm'
CalmReload == ReloadFile /\ Calm'

NextCalm ==
  \/ CalmList
  \/ GetInfoLocal
  \/ Compare
  \/ LoopDone
  \/ CalmDelete
  \/ CalmLoad
  \/ CalmReload
  \/ Sleep

(* infinite_sync is one sequential loop: it always takes its next step *)
CalmSpec == InitCalm /\ [][NextCalm]_vars /\ WF_vars(NextCalm)

(* what a successful listing of the remote collection yields *)
RemoteSnapshot == make_info_dict(ListingBody(cloud)).dict

SameNamesAndSizes ==
  /\ DOMAIN RemoteSnapshot = DOMAIN get_info(local)
  /\ \A n \in DOMAIN RemoteSnapshot : RemoteSnapshot[n].size = get_info(local)[n].size

(* C22: in a calm environment a full cycle is completed, after it the     *)
(* remote snapshot has the names and sizes of the local one, and from the *)
(* start of the next cycle on every plan is empty.                        *)
C22_Convergence ==
  /\ <>(pc = "sleep")
  /\ [](pc = "sleep" => SameNamesAndSizes)
  /\ [](pc = "sleep" => [](pc = "get_info" => [](todo_dict = EmptyPlan)))

(* a first cycle that had to upload, re-upload or delete has completed *)
C22_Witness ==
  /\ pc = "sleep"
  /\ todo_dict.load # {}
  /\ todo_dict.reload # {}
  /\ Len(reqLog) = 4
  /\ SameNamesAndSizes
====
